---- MODULE Spec2Model ----
(***************************************************************************)
(* LightAIModelEval: the unified API model (opencompass/models/            *)
(* unified_api.py).  One behaviour is one call of                          *)
(* UnifiedAPIModel.generate(inputs, max_out_len, **kwargs) on a model      *)
(* constructed with query_per_second = N and retry = R.                    *)
(***************************************************************************)
EXTENDS Integers, Sequences, FiniteSets, TLC

\* ---------------------------------------------------------------- bounds
MaxLen == 2    \* longest prompt sequence handed to generate
MaxN == 2      \* largest query_per_second (pool size)
MaxR == 2      \* largest retry count

\* ------------------------------------------------------- Python values
\* None, a str, and an exception held by a Future or being raised.
PyNone == <<"None">>
PyStr(t) == <<"str", t>>
PyExc(e) == <<"exc", e>>

\* dict.update: the right operand's keys win.
DictUpdate(a, b) ==
  [k \in DOMAIN a \cup DOMAIN b |-> IF k \in DOMAIN b THEN b[k] ELSE a[k]]

\* d[key] = value
DictSet(d, key, value) ==
  [k \in DOMAIN d \cup {key} |-> IF k = key THEN value ELSE d[k]]

EmptyDict == [k \in {} |-> 0]

RECURSIVE Pow2(_)
\* 2 ** k
Pow2(k) == IF k = 0 THEN 1 ELSE 2 * Pow2(k - 1)

\* ------------------------------------------------------ inputs of a run

\* The adapter is a network service: a call returns some text or raises.
\* The texts it can return for a prompt: the empty text, or a text that
\* depends on the prompt.
AdapterTexts(p) == {"", IF p = "p1" THEN "r1" ELSE "r2"}
\* What a failed call raises (requests' errors, KeyError, Exception: all of
\* them subclasses of Exception).
AdapterErrors == {"Exception"}

SeqsUpTo(S, n) == UNION {[1..m -> S] : m \in 0..n}


VARIABLES
  inputs,            \* generate's inputs
  N,                 \* self.query_per_second
  R,                 \* self.retry
  max_out_len,       \* generate's max_out_len
  self_generation_kwargs,  \* self.generation_kwargs
  kwargs,            \* generate's **kwargs
  pc,                \* where generate's own thread is
  submitted,         \* how many items executor.submit has been called for
  queue,             \* the executor's work queue (item indices, FIFO)
  worker,            \* worker[w]: the item worker thread w runs, 0 if idle
  st,                \* st[i]: where _generate_single of item i is
  attempt,           \* attempt[i]: _generate_single's loop variable
  prompt,            \* prompt[i]: _generate_single's prompt argument
  gk,                \* gk[i]: _generate_single's local generation_kwargs
  future,            \* future[i]: how _generate_single of item i ended
  yielded,           \* the futures as_completed has yielded
  results,           \* generate's results list
  calls,             \* calls[i]: adapter.generate calls made for item i
  waits,             \* waits[i]: the time.sleep durations of item i, in order
  \* -- UnifiedAPIManager.create_adapter(adapter_type, config)
  adapter_type,      \* the adapter_type argument
  adapter_config,    \* the config argument
  created,           \* what the call did: not called, an adapter, an error
  \* -- UnifiedEvaluator._calculate_metrics(cloud_result, edge_result)
  cloud_result,      \* the cloud_result argument
  edge_result,       \* the edge_result argument
  metrics,           \* what the call returned (not called before)
  \* -- UnifiedEvaluator.compare_models / evaluate / generate_report
  model_configs,     \* [cloud_model_config, edge_model_config]
  dataset_configs,   \* the abbr of each dataset configuration, in order
  ev_pc,             \* where compare_models and the evaluate it calls are
  models,            \* evaluate's models list: the abbr of each model built
  task_i,            \* position of the run loop in evaluate's tasks list
  outcomes,          \* what each task run so far did (for the properties)
  eval_results,      \* evaluate's results dict
  eval_error,        \* the exception that left evaluate, if one did
  comparison,        \* what compare_models did (not called before)
  reports,           \* the texts generate_report returned, call by call
  now,               \* the clock datetime.now() reads
  \* -- RESTfulAdapter's _set_nested_value, _prepare_request, _parse_response
  fm_call,           \* the method called and its arguments
  fm_result          \* what the call did (not called before)

config == <<inputs, N, R, max_out_len, self_generation_kwargs, kwargs>>
genVars == <<inputs, N, R, max_out_len, self_generation_kwargs, kwargs, pc,
             submitted, queue, worker, st, attempt, prompt, gk, future,
             yielded, results, calls, waits>>
regVars == <<adapter_type, adapter_config, created>>
metVars == <<cloud_result, edge_result, metrics>>
evVars == <<model_configs, dataset_configs, ev_pc, models, task_i, outcomes,
            eval_results, eval_error, comparison, reports, now>>
fmVars == <<fm_call, fm_result>>
\* The variables generate does not touch.
others == <<regVars, metVars, evVars, fmVars>>
vars == <<genVars, regVars, metVars, evVars, fmVars>>

\* How a call that can raise ended (or that it has not been made).
NotCalled == [called |-> FALSE]
Raised(msg) == [called |-> TRUE, ok |-> FALSE, error |-> msg]

\* No create_adapter call is being looked at.
RegIdle ==
  /\ adapter_type = ""
  /\ adapter_config = EmptyDict
  /\ created = NotCalled

\* No _calculate_metrics call is being looked at.
MetIdle ==
  /\ cloud_result = EmptyDict
  /\ edge_result = EmptyDict
  /\ metrics = NotCalled

\* No compare_models call is being looked at.
EvIdle ==
  /\ model_configs = <<>>
  /\ dataset_configs = <<>>
  /\ ev_pc = "idle"
  /\ models = <<>>
  /\ task_i = 0
  /\ outcomes = <<>>
  /\ eval_results = EmptyDict
  /\ eval_error = ""
  /\ comparison = NotCalled
  /\ reports = <<>>
  /\ now = 0

\* No field mapper call is being looked at.
FmIdle ==
  /\ fm_call = [op |-> ""]
  /\ fm_result = NotCalled

Items == 1..Len(inputs)
Workers == 1..N

Init ==
  /\ inputs \in SeqsUpTo({"p1", "p2"}, MaxLen)
  /\ N \in 0..MaxN
  /\ R \in 0..MaxR
  /\ max_out_len \in {16}
  /\ self_generation_kwargs \in
       {EmptyDict, [max_tokens |-> 64, temperature |-> 0]}
  /\ kwargs \in {EmptyDict, [max_tokens |-> 32, top_p |-> 1]}
  /\ pc = "start"
  /\ submitted = 0
  /\ queue = <<>>
  /\ worker = [w \in Workers |-> 0]
  /\ st = [i \in Items |-> "new"]
  /\ attempt = [i \in Items |-> 0]
  /\ prompt = [i \in Items |-> PyNone]
  /\ gk = [i \in Items |-> EmptyDict]
  /\ future = [i \in Items |-> PyNone]
  /\ yielded = {}
  /\ results = <<>>
  /\ calls = [i \in Items |-> 0]
  /\ waits = [i \in Items |-> <<>>]
  /\ RegIdle
  /\ MetIdle
  /\ EvIdle
  /\ FmIdle

\* --------------------------------------------------- _generate_single
\* The parameters every attempt passes to the adapter: the model's
\* defaults, updated with the caller's kwargs, then max_tokens set.
\* (variant: max_tokens set first, the caller's kwargs applied last)
EffectiveKwargsCallerLast ==
  DictUpdate(DictSet(self_generation_kwargs, "max_tokens", max_out_len), kwargs)

EffectiveKwargs ==
  DictSet(DictUpdate(self_generation_kwargs, kwargs), "max_tokens", max_out_len)

\* (variant: a fixed delay of one time unit)
BackoffFixed(k) == 1

\* time.sleep(2 ** attempt)
Backoff(k) == Pow2(k)

\* (variant: one attempt too many)
LastAttemptOffByOne(k) == k = R + 1

\* `if attempt == self.retry: raise e`
LastAttempt(k) == k = R

\* An item whose adapter call is in flight or that sleeps between attempts.
InFlight(i) == st[i] \in {"calling", "backoff"}
Finished(i) == st[i] \in {"ok", "err"}

\* _generate_single is entered for item i: the parameters are merged and
\* attempt 0 calls the adapter.
EnterSingle(i) ==
  /\ st' = [st EXCEPT ![i] = "calling"]
  /\ attempt' = [attempt EXCEPT ![i] = 0]
  /\ gk' = [gk EXCEPT ![i] = EffectiveKwargs]
  /\ calls' = [calls EXCEPT ![i] = @ + 1]

\* The adapter call of item i raises before the last attempt: the loop
\* logs a warning and sleeps.
RetryLater(i) ==
  /\ st[i] = "calling"
  /\ ~LastAttempt(attempt[i])
  /\ st' = [st EXCEPT ![i] = "backoff"]
  /\ waits' = [waits EXCEPT ![i] = Append(@, Backoff(attempt[i]))]
  /\ UNCHANGED <<others, config, yielded, pc, submitted, queue, worker, attempt,
                 prompt, gk, future, results, calls>>

\* The sleep of item i ends: the loop's next attempt calls the adapter.
Wake(i) ==
  /\ st[i] = "backoff"
  /\ st' = [st EXCEPT ![i] = "calling"]
  /\ attempt' = [attempt EXCEPT ![i] = @ + 1]
  /\ calls' = [calls EXCEPT ![i] = @ + 1]
  /\ UNCHANGED <<others, config, yielded, pc, submitted, queue, worker, prompt, gk,
                 future, results, waits>>

\* ----------------------------------------------------------- generate
\* `if self.query_per_second > 0`
UsePool == N > 0

\* (variant: no handler around the item)
CaughtNothing(e) == FALSE

\* `except Exception as e`: the exceptions the handler catches.
Caught(e) == e \in {"Exception"}

\* (variant: the handler stores the error's text)
OnExceptionKeepsError(e) == PyStr(e)

\* The handler's `results[index] = ""` / `results.append("")`.
OnException(e) == PyStr("")

\* future.result() (or the direct call) inside the try: the value that is
\* stored for an item that ended as f.
Outcome(f) == IF f[1] = "exc" THEN OnException(f[2]) ELSE f

\* Whether the item's exception leaves generate.
Escapes(f) == f[1] = "exc" /\ ~Caught(f[2])

Enter ==
  /\ pc = "start"
  /\ pc' = IF UsePool THEN "submit" ELSE "seq"
  /\ UNCHANGED <<others, config, yielded, submitted, queue, worker, st, attempt,
                 prompt, gk, future, results, calls, waits>>

\* -- pooled: ThreadPoolExecutor(max_workers = N)
\* executor.submit(self._generate_single, input_text, ...) for the next item.
Submit ==
  /\ pc = "submit"
  /\ submitted < Len(inputs)
  /\ submitted' = submitted + 1
  /\ queue' = Append(queue, submitted + 1)
  /\ st' = [st EXCEPT ![submitted + 1] = "queued"]
  /\ prompt' = [prompt EXCEPT ![submitted + 1] = inputs[submitted + 1]]
  /\ UNCHANGED <<others, config, yielded, pc, worker, attempt, gk, future, results,
                 calls, waits>>

\* results = [None] * len(inputs), once every item is submitted.
Allocate ==
  /\ pc = "submit"
  /\ submitted = Len(inputs)
  /\ results' = [i \in Items |-> PyNone]
  /\ pc' = "collect"
  /\ UNCHANGED <<others, config, yielded, submitted, queue, worker, st, attempt,
                 prompt, gk, future, calls, waits>>

\* (variant: a thread takes work whether or not it is running an item)
IdleWorkerAlways(w) == TRUE

\* (variant: a sleeping item stalls the whole pool)
IdleWorkerNoSleeper(w) ==
  worker[w] = 0 /\ \A i \in DOMAIN st : st[i] # "backoff"

\* A worker thread runs one work item at a time.
IdleWorker(w) == worker[w] = 0

\* The pool's threads are interchangeable: of the idle ones, the
\* lowest-numbered is taken to be the one that gets the next work item.
FirstIdle(w) == IdleWorker(w) /\ \A v \in Workers : v < w => ~IdleWorker(v)

\* (variant: a thread that finished its item stays taken)
ReleaseNothing(i) == worker

\* The thread that ran item i is idle again.
Release(i) == [w \in Workers |-> IF worker[w] = i THEN 0 ELSE worker[w]]

\* Worker w takes the oldest queued item and runs _generate_single on it.
Take(w) ==
  /\ FirstIdle(w)
  /\ queue # <<>>
  /\ worker' = [worker EXCEPT ![w] = Head(queue)]
  /\ queue' = Tail(queue)
  /\ EnterSingle(Head(queue))
  /\ UNCHANGED <<others, config, yielded, pc, submitted, prompt, future, results, waits>>

\* The adapter call of item i returns text: _generate_single returns it,
\* the future is done and the worker is free.
PoolReturns(i) ==
  /\ UsePool
  /\ st[i] = "calling"
  /\ st' = [st EXCEPT ![i] = "ok"]
  /\ \E text \in AdapterTexts(prompt[i]) :
       future' = [future EXCEPT ![i] = PyStr(text)]
  /\ worker' = Release(i)
  /\ UNCHANGED <<others, config, yielded, pc, submitted, queue, attempt, prompt, gk,
                 results, calls, waits>>

\* The last attempt of item i raises: _generate_single raises, the future
\* holds the exception and the worker is free.
PoolRaises(i) ==
  /\ UsePool
  /\ st[i] = "calling"
  /\ LastAttempt(attempt[i])
  /\ st' = [st EXCEPT ![i] = "err"]
  /\ \E e \in AdapterErrors : future' = [future EXCEPT ![i] = PyExc(e)]
  /\ worker' = Release(i)
  /\ UNCHANGED <<others, config, yielded, pc, submitted, queue, attempt, prompt, gk,
                 results, calls, waits>>

\* (variant: results stored in completion order)
completion_order(i) == Cardinality(yielded) + 1

\* future_to_index[future]
future_to_index(i) == i

\* as_completed yields a finished future that it has not yielded yet.
Collect(i) ==
  /\ pc = "collect"
  /\ future[i] # PyNone
  /\ i \notin yielded
  /\ yielded' = yielded \cup {i}
  /\ IF Escapes(future[i])
       THEN pc' = "raised" /\ UNCHANGED results
       ELSE /\ results' = [results EXCEPT
                             ![future_to_index(i)] = Outcome(future[i])]
            /\ UNCHANGED pc
  /\ UNCHANGED <<others, config, submitted, queue, worker, st, attempt, prompt, gk,
                 future, calls, waits>>

\* (variant: generate returns without waiting for the futures or the pool)
PoolNotJoined == TRUE

\* as_completed has yielded every future, and the `with` block's
\* shutdown(wait=True) has joined the workers.
PoolJoined ==
  /\ yielded = Items
  /\ queue = <<>>
  /\ \A w \in Workers : worker[w] = 0

PoolDone ==
  /\ pc = "collect"
  /\ PoolJoined
  /\ pc' = "returned"
  /\ UNCHANGED <<others, config, yielded, submitted, queue, worker, st, attempt,
                 prompt, gk, future, results, calls, waits>>

\* -- sequential: `for input_text in inputs`
\* (variant: an item is started without waiting for the one before it)
SeqReadyAny(i) == TRUE

\* The loop's next item: the one after those already appended.
SeqReady(i) == i = Len(results) + 1

SeqCall(i) ==
  /\ pc = "seq"
  /\ st[i] = "new"
  /\ SeqReady(i)
  /\ prompt' = [prompt EXCEPT ![i] = inputs[i]]
  /\ EnterSingle(i)
  /\ UNCHANGED <<others, config, yielded, pc, submitted, queue, worker, future,
                 results, waits>>

SeqReturns(i) ==
  /\ pc = "seq"
  /\ st[i] = "calling"
  /\ st' = [st EXCEPT ![i] = "ok"]
  /\ \E text \in AdapterTexts(prompt[i]) :
       /\ future' = [future EXCEPT ![i] = PyStr(text)]
       /\ results' = Append(results, PyStr(text))
  /\ UNCHANGED <<others, config, yielded, pc, submitted, queue, worker, attempt,
                 prompt, gk, calls, waits>>

SeqRaises(i) ==
  /\ pc = "seq"
  /\ st[i] = "calling"
  /\ LastAttempt(attempt[i])
  /\ st' = [st EXCEPT ![i] = "err"]
  /\ \E e \in AdapterErrors :
       /\ future' = [future EXCEPT ![i] = PyExc(e)]
       /\ IF Escapes(PyExc(e))
            THEN pc' = "raised" /\ UNCHANGED results
            ELSE results' = Append(results, Outcome(PyExc(e))) /\ UNCHANGED pc
  /\ UNCHANGED <<others, config, yielded, submitted, queue, worker, attempt, prompt,
                 gk, calls, waits>>

SeqDone ==
  /\ pc = "seq"
  /\ Len(results) = Len(inputs)
  /\ pc' = "returned"
  /\ UNCHANGED <<others, config, yielded, submitted, queue, worker, st, attempt,
                 prompt, gk, future, results, calls, waits>>

Next ==
  \/ Enter
  \/ Submit
  \/ Allocate
  \/ \E w \in Workers : Take(w)
  \/ \E i \in Items : PoolReturns(i)
  \/ \E i \in Items : PoolRaises(i)
  \/ \E i \in Items : RetryLater(i)
  \/ \E i \in Items : Wake(i)
  \/ \E i \in Items : Collect(i)
  \/ PoolDone
  \/ \E i \in Items : SeqCall(i)
  \/ \E i \in Items : SeqReturns(i)
  \/ \E i \in Items : SeqRaises(i)
  \/ SeqDone

Spec == Init /\ [][Next]_vars

\* ------------------------------------------------------------ properties
InFlightItems == {i \in Items : InFlight(i)}

\* C1: with a concurrency budget N > 0, whatever order the calls complete
\* in, every filled slot results[i] holds the outcome of the call made for
\* inputs[i], and when generate returns the result has the input's length
\* and every slot is filled.
C1_IndexAligned ==
  (UsePool /\ pc \in {"collect", "returned"}) =>
    /\ Len(results) = Len(inputs)
    /\ \A i \in Items :
         /\ results[i] # PyNone =>
              /\ Finished(i)
              /\ prompt[i] = inputs[i]
              /\ st[i] = "ok" =>
                   results[i] = future[i] /\ future[i][2] \in AdapterTexts(inputs[i])
              /\ st[i] = "err" => results[i] = PyStr("")
         /\ pc = "returned" => results[i] # PyNone

\* The second item's call completed and was stored while the first item's
\* call is still in flight.
C1_Witness ==
  /\ UsePool
  /\ pc = "collect"
  /\ Len(inputs) = 2
  /\ inputs[1] # inputs[2]
  /\ InFlight(1)
  /\ results[2] = PyStr("r2")

\* C2: with N = 0 at most one call is in flight, and nothing is done for
\* inputs[i+1] (no call, no retry) before every attempt for inputs[i]
\* has finished.
C2_StrictlySequential ==
  ~UsePool =>
    /\ Cardinality(InFlightItems) <= 1
    /\ \A i \in Items :
         (i > 1 /\ (st[i] # "new" \/ calls[i] > 0)) => Finished(i - 1)

C2_Witness ==
  /\ ~UsePool
  /\ Len(inputs) = 2
  /\ st[1] = "err"
  /\ st[2] = "backoff"
  /\ attempt[2] = 1

\* C3: with N > 0 the items being processed by a worker (calling the
\* adapter or sleeping in backoff) are never more than N.
C3_AtMostNInFlight ==
  UsePool => Cardinality(InFlightItems) <= N

\* The pool is full, one of its items sleeps, and an item waits.
C3_Witness ==
  /\ UsePool
  /\ Cardinality(InFlightItems) = N
  /\ queue # <<>>
  /\ \E i \in Items : st[i] = "backoff"

\* C4: an item whose call fails on every attempt has had exactly R + 1
\* adapter calls (no item ever has more), and its entry in the returned
\* sequence is the empty string.
C4_ExactlyRPlusOneCalls ==
  \A i \in Items :
    /\ calls[i] <= R + 1
    /\ st[i] = "err" => calls[i] = R + 1
    /\ (st[i] = "err" /\ pc = "returned") => results[i] = PyStr("")

C4_Witness ==
  /\ pc = "returned"
  /\ R = 2
  /\ \E i \in Items : st[i] = "err" /\ calls[i] = 3

C6_FailureIsolated ==
  /\ pc # "raised"
  /\ pc = "returned" =>
       \A j \in Items :
         st[j] = "ok" =>
           results[j] = future[j] /\ future[j][2] \in AdapterTexts(inputs[j])

\* Sequential mode: the first item failed on all attempts and the second
\* one still got its own text.
C6_Witness ==
  /\ pc = "returned"
  /\ ~UsePool
  /\ Len(inputs) = 2
  /\ st[1] = "err"
  /\ st[2] = "ok"
  /\ results[2] = PyStr("r2")

\* C7: the k-th sleep of an item (k from 0) lasts 2^k; the item's attempt k
\* is called after exactly k sleeps (none before the first attempt), the
\* sleep after failed attempt k < R is the (k+1)-th, and an item that failed
\* its final attempt R has slept R times (no sleep after the final failure).
C7_ExponentialBackoff ==
  \A i \in Items :
    /\ \A k \in 1..Len(waits[i]) : waits[i][k] = Pow2(k - 1)
    /\ st[i] \in {"new", "queued"} => waits[i] = <<>>
    /\ st[i] = "calling" => Len(waits[i]) = attempt[i]
    /\ st[i] = "backoff" => Len(waits[i]) = attempt[i] + 1 /\ attempt[i] < R
    /\ st[i] = "ok" => Len(waits[i]) = attempt[i]
    /\ st[i] = "err" => Len(waits[i]) = R /\ attempt[i] = R

C7_Witness ==
  \E i \in Items : st[i] = "err" /\ waits[i] = <<1, 2>>

\* What item j can do next, by itself or through the thread that runs it.
ItemStep(j) ==
  \/ submitted + 1 = j /\ Submit
  \/ queue # <<>> /\ Head(queue) = j /\ \E w \in Workers : Take(w)
  \/ PoolReturns(j)
  \/ PoolRaises(j)
  \/ RetryLater(j)
  \/ Wake(j)
  \/ SeqCall(j)
  \/ SeqReturns(j)
  \/ SeqRaises(j)

\* C8 (as stated): while an item sleeps in backoff, every other item that
\* has not completed can have its call issued or make progress.
C8_BackoffBlocksNoItem ==
  \A i, j \in Items :
    (i # j /\ st[i] = "backoff" /\ ~Finished(j)) => ENABLED ItemStep(j)

\* C8 (amended): while an item sleeps in backoff, every other item that a
\* worker is already processing can make progress, and the oldest queued
\* item can be issued whenever a worker is idle.
C8_BackoffBlocksOnlyItsWorker ==
  \A i, j \in Items :
    (i # j /\ st[i] = "backoff") =>
      /\ InFlight(j) => ENABLED ItemStep(j)
      /\ (st[j] = "queued" /\ Head(queue) = j /\ \E w \in Workers : worker[w] = 0)
           => ENABLED ItemStep(j)

\* One item sleeps while the oldest queued item waits and a worker is idle.
C8_Witness ==
  \E i, j \in Items :
    /\ i # j
    /\ st[i] = "backoff"
    /\ st[j] = "queued"
    /\ \E w \in Workers : worker[w] = 0

\* C9: when generate has returned, no item is queued, being called or
\* sleeping, every item has finished, and every worker of the pool is idle.
C9_NothingLeftRunning ==
  pc = "returned" =>
    /\ \A i \in Items : Finished(i)
    /\ InFlightItems = {}
    /\ queue = <<>>
    /\ \A w \in Workers : worker[w] = 0

C9_Witness ==
  /\ pc = "returned"
  /\ UsePool
  /\ Len(inputs) = 2
  /\ \E i \in Items : calls[i] > 1

\* C10: every adapter call, on every attempt, passes max_tokens equal to
\* generate's max_out_len, whatever the model's defaults and the caller's
\* kwargs set.
C10_MaxTokensIsMaxOutLen ==
  \A i \in Items :
    st[i] = "calling" =>
      "max_tokens" \in DOMAIN gk[i] /\ gk[i]["max_tokens"] = max_out_len

\* A retry is being called while the defaults and the caller's kwargs both
\* set max_tokens to something else.
C10_Witness ==
  \E i \in Items :
    /\ st[i] = "calling"
    /\ attempt[i] >= 1
    /\ "max_tokens" \in DOMAIN self_generation_kwargs
    /\ "max_tokens" \in DOMAIN kwargs
    /\ self_generation_kwargs["max_tokens"] # max_out_len
    /\ kwargs["max_tokens"] # max_out_len

RECURSIVE CallsUpTo(_)
\* The adapter calls made for the items 1..i.
CallsUpTo(i) == IF i = 0 THEN 0 ELSE calls[i] + CallsUpTo(i - 1)

\* C27: an item whose first successful adapter call is attempt k has k <= R,
\* had exactly k + 1 adapter calls (k of them failed, each followed by a
\* sleep) and has the text of that call as its result; the adapter calls of
\* a generate call never number more than len(inputs) * (R + 1).
C27_StopsAtFirstSuccess ==
  /\ \A i \in Items :
       st[i] = "ok" =>
         /\ attempt[i] <= R
         /\ calls[i] = attempt[i] + 1
         /\ Len(waits[i]) = attempt[i]
         /\ \E text \in AdapterTexts(inputs[i]) : future[i] = PyStr(text)
         /\ pc = "returned" => results[i] = future[i]
  /\ CallsUpTo(Len(inputs)) <= Len(inputs) * (R + 1)

\* An item that succeeded on its last attempt next to one that succeeded
\* on its first, both returned.
C27_Witness ==
  /\ pc = "returned"
  /\ R = 2
  /\ \E i, j \in Items :
       /\ st[i] = "ok" /\ attempt[i] = 2 /\ calls[i] = 3
       /\ st[j] = "ok" /\ attempt[j] = 0 /\ calls[j] = 1

\* Every step that can be taken is taken in the end: a thread that can run
\* runs, an adapter call returns or fails, a sleep ends.
SpecLive == Init /\ [][Next]_vars /\ WF_vars(Next)

\* generate has returned its results, one for every input.
Returned_AllFilled ==
  /\ pc = "returned"
  /\ Len(results) = Len(inputs)
  /\ \A i \in Items : results[i] # PyNone

\* C28: provided every adapter call returns or fails in the end, generate
\* returns in the end with every result slot filled, for every N >= 0,
\* every R >= 0 and every pattern of successes and failures.
C28_Terminates == <>Returned_AllFilled

\* A pooled call of two items returned after one item failed on every
\* attempt and the other needed a retry.
C28_Witness ==
  /\ Returned_AllFilled
  /\ N = 2 /\ R = 2 /\ Len(inputs) = 2
  /\ \E i, j \in Items :
       /\ st[i] = "err" /\ calls[i] = 3
       /\ st[j] = "ok" /\ calls[j] = 2

\* ===================================================================
\* UnifiedAPIManager.create_adapter and the adapters' validate_config
\* ===================================================================
\* A str is modelled as the sequence of its parts, so that a prefix can be
\* tested: "" is <<>>, "http://x" is <<"http://", "x">>.
StartsWith(str, prefix) == Len(str) >= 1 /\ str[1] = prefix

\* Python truthiness of a str: `not config[field]` holds for "".
Truthy(str) == str # <<>>

\* dict.get(key, default)
DictGet(d, key, default) == IF key \in DOMAIN d THEN d[key] ELSE default

\* No generate call is being looked at.
GenIdle ==
  /\ inputs = <<>>
  /\ N = 0
  /\ R = 0
  /\ max_out_len = 0
  /\ self_generation_kwargs = EmptyDict
  /\ kwargs = EmptyDict
  /\ pc = "idle"
  /\ submitted = 0
  /\ queue = <<>>
  /\ worker = <<>>
  /\ st = <<>>
  /\ attempt = <<>>
  /\ prompt = <<>>
  /\ gk = <<>>
  /\ future = <<>>
  /\ yielded = {}
  /\ results = <<>>
  /\ calls = <<>>
  /\ waits = <<>>

\* The configurations handed to the registry: api_key and endpoint each
\* absent, empty or set; endpoints with and without an http(s) scheme.
ApiKeys == {<<>>, <<"sk-test">>}
Endpoints == {<<>>, <<"http://", "x">>, <<"https://", "x">>,
              <<"ftp://", "x">>, <<"x">>}

\* self.adapters
KnownAdapters == {"openai", "restful"}

\* OpenAIAdapter.__init__
OpenAIDefaultEndpoint == <<"https://", "api.openai.com/v1/chat/completions">>
OpenAIAdapter(cfg) ==
  [class |-> "OpenAIAdapter",
   api_key |-> DictGet(cfg, "api_key", <<>>),
   endpoint |-> DictGet(cfg, "endpoint", OpenAIDefaultEndpoint)]

\* RESTfulAdapter.__init__
RESTfulAdapter(cfg) ==
  [class |-> "RESTfulAdapter",
   api_key |-> <<>>,
   endpoint |-> DictGet(cfg, "endpoint", <<>>)]

\* `if field not in config or not config[field]: return False`
HasField(cfg, field) == field \in DOMAIN cfg /\ Truthy(cfg[field])

\* (variant: the api_key is not checked)
OpenAIValidateNothing(cfg) == TRUE

\* OpenAIAdapter.validate_config: required_fields = ['api_key']
OpenAIValidateConfig(cfg) == HasField(cfg, "api_key")

\* RESTfulAdapter.validate_config: required_fields = ['endpoint']
RESTfulValidateConfig(cfg) == HasField(cfg, "endpoint")

\* APIConfigService.validate_config's endpoint rule (the configuration
\* service, not called by the registry).
ServiceEndpointValid(cfg) ==
  /\ HasField(cfg, "endpoint")
  /\ StartsWith(cfg["endpoint"], "http://") \/ StartsWith(cfg["endpoint"], "https://")

Returned(a) == [called |-> TRUE, ok |-> TRUE, adapter |-> a]

\* UnifiedAPIManager.create_adapter
create_adapter(type, cfg) ==
  IF type \notin KnownAdapters
    THEN Raised("ValueError: Unsupported adapter type")
    ELSE LET adapter == IF type = "openai" THEN OpenAIAdapter(cfg)
                                            ELSE RESTfulAdapter(cfg)
             valid == IF type = "openai" THEN OpenAIValidateConfig(cfg)
                                          ELSE RESTfulValidateConfig(cfg)
         IN  IF ~valid THEN Raised("ValueError: Invalid configuration for adapter")
                       ELSE Returned(adapter)

RegInit ==
  /\ GenIdle
  /\ adapter_type \in {"openai", "restful", "unsupported"}
  /\ adapter_config \in
       ({EmptyDict}
          \cup {[api_key |-> k] : k \in ApiKeys}
          \cup {[endpoint |-> e] : e \in Endpoints}
          \cup {[api_key |-> k, endpoint |-> e] :
                  k \in ApiKeys, e \in Endpoints})
  /\ created = NotCalled
  /\ MetIdle
  /\ EvIdle
  /\ FmIdle

CreateAdapter ==
  /\ ~created.called
  /\ adapter_type # ""
  /\ created' = create_adapter(adapter_type, adapter_config)
  /\ UNCHANGED <<genVars, metVars, evVars, fmVars, adapter_type, adapter_config>>

RegNext == CreateAdapter

SpecRegistry == RegInit /\ [][RegNext]_vars

\* C11: create_adapter returns an adapter exactly when the type is 'openai'
\* and api_key is present and non-empty, or the type is 'restful' and
\* endpoint is present and non-empty; otherwise (unknown type included) it
\* fails with an error and returns no adapter.  The adapter returned is of
\* the variant asked for.
C11_AdapterOnlyIfValid ==
  created.called =>
    /\ created.ok <=>
         \/ adapter_type = "openai" /\ HasField(adapter_config, "api_key")
         \/ adapter_type = "restful" /\ HasField(adapter_config, "endpoint")
    /\ created.ok =>
         created.adapter.class =
           (IF adapter_type = "openai" THEN "OpenAIAdapter" ELSE "RESTfulAdapter")
    /\ ~created.ok => "adapter" \notin DOMAIN created

\* 'openai' with an empty api_key (and a well-formed endpoint) was refused.
C11_Witness ==
  /\ created.called
  /\ ~created.ok
  /\ adapter_type = "openai"
  /\ adapter_config = [api_key |-> <<>>, endpoint |-> <<"https://", "x">>]

\* C12: every adapter the registry returns has an endpoint that is
\* non-empty and begins with 'http://' or 'https://'.
C12_EndpointIsHttpUrl ==
  (created.called /\ created.ok) =>
    /\ created.adapter.endpoint # <<>>
    /\ \/ StartsWith(created.adapter.endpoint, "http://")
       \/ StartsWith(created.adapter.endpoint, "https://")

\* ===================================================================
\* UnifiedEvaluator._calculate_metrics
\* ===================================================================
MaxValue == 2   \* largest metric value in a result

\* The keys of a result that _calculate_metrics reads.
ResultKeys == {"accuracy", "avg_latency", "throughput"}

\* The inline error marker {"error": str(e)} that evaluate records.
ErrorMarker(msg) == [error |-> msg]

\* A model's result for a dataset: any of the keys present or absent
\* (the empty result included), or an inline error marker.
ResultDicts ==
  UNION {[S -> 0..MaxValue] : S \in SUBSET ResultKeys}
    \cup {ErrorMarker("RuntimeError")}

\* (variant: a metric is skipped unless both sides have it)
InBoth(cloud, edge, key) == key \in DOMAIN cloud /\ key \in DOMAIN edge

\* `if "accuracy" in cloud_result:` and the like
Gate(cloud, edge, key) == key \in DOMAIN cloud

\* cloud_result["accuracy"] - edge_result.get("accuracy", 0)
AccuracyDifference(cloudValue, edgeValue) == cloudValue - edgeValue

\* (variant: one uniform subtraction, cloud minus edge)
LatencyCloudMinusEdge(cloudValue, edgeValue) == cloudValue - edgeValue

\* edge_result.get("avg_latency", 0) - cloud_result["avg_latency"]
LatencyDifference(cloudValue, edgeValue) == edgeValue - cloudValue

\* (variant: throughput subtracted the way accuracy is)
ThroughputCloudMinusEdge(cloudValue, edgeValue) == cloudValue - edgeValue

\* edge_result.get("throughput", 0) - cloud_result["throughput"]
ThroughputDifference(cloudValue, edgeValue) == edgeValue - cloudValue

\* (variant: the latency entry is named after the result key)
LatencyNameAsKey == "avg_latency"

\* metrics["latency"] = ...
LatencyName == "latency"

\* (variant: a metric the edge side lacks is compared with the cloud value)
MetricEntryEdgeAsCloud(cloud, edge, key) ==
  LET c == cloud[key]
      e == DictGet(edge, key, c)
  IN  [cloud |-> c,
       edge |-> e,
       difference |->
         IF key = "accuracy" THEN AccuracyDifference(c, e)
         ELSE IF key = "avg_latency" THEN LatencyDifference(c, e)
         ELSE ThroughputDifference(c, e)]

\* The entry {"cloud": ..., "edge": ..., "difference": ...} of one metric.
MetricEntry(cloud, edge, key) ==
  LET c == cloud[key]
      e == DictGet(edge, key, 0)
  IN  [cloud |-> c,
       edge |-> e,
       difference |->
         IF key = "accuracy" THEN AccuracyDifference(c, e)
         ELSE IF key = "avg_latency" THEN LatencyDifference(c, e)
         ELSE ThroughputDifference(c, e)]

\* The name under which the metric read from result key `key` is stored.
MetricName(key) == IF key = "avg_latency" THEN LatencyName ELSE key

\* UnifiedEvaluator._calculate_metrics
calculate_metrics(cloud, edge) ==
  LET keys == {k \in ResultKeys : Gate(cloud, edge, k)}
      keyOf(n) == CHOOSE k \in keys : MetricName(k) = n
  IN  [n \in {MetricName(k) : k \in keys} |-> MetricEntry(cloud, edge, keyOf(n))]

MetInit ==
  /\ GenIdle
  /\ RegIdle
  /\ EvIdle
  /\ FmIdle
  /\ cloud_result \in ResultDicts
  /\ edge_result \in ResultDicts
  /\ metrics = NotCalled

CalculateMetrics ==
  /\ ~metrics.called
  /\ metrics' = [called |-> TRUE,
                 value |-> calculate_metrics(cloud_result, edge_result)]
  /\ UNCHANGED <<genVars, regVars, evVars, fmVars, cloud_result, edge_result>>

MetNext == CalculateMetrics

SpecMetrics == MetInit /\ [][MetNext]_vars

\* The value a side contributes for a key: 0 when the key is absent.
ValueOf(result, key) == DictGet(result, key, 0)

\* C16: whenever the metric is computed, the accuracy difference is cloud
\* accuracy minus edge accuracy, the latency difference is edge avg_latency
\* minus cloud avg_latency and the throughput difference is edge throughput
\* minus cloud throughput.
C16_SignRule ==
  metrics.called =>
    /\ "accuracy" \in DOMAIN cloud_result =>
         metrics.value["accuracy"].difference =
           cloud_result["accuracy"] - ValueOf(edge_result, "accuracy")
    /\ "avg_latency" \in DOMAIN cloud_result =>
         metrics.value["latency"].difference =
           ValueOf(edge_result, "avg_latency") - cloud_result["avg_latency"]
    /\ "throughput" \in DOMAIN cloud_result =>
         metrics.value["throughput"].difference =
           ValueOf(edge_result, "throughput") - cloud_result["throughput"]

\* All three metrics computed from unequal values on the two sides.
C16_Witness ==
  /\ metrics.called
  /\ DOMAIN cloud_result = ResultKeys
  /\ DOMAIN edge_result = ResultKeys
  /\ \A k \in ResultKeys : cloud_result[k] # edge_result[k]
  /\ metrics.value["latency"].difference > 0
  /\ metrics.value["throughput"].difference < 0

\* C17 (as claimed): a positive difference always means the cloud model is
\* better: for accuracy and throughput difference > 0 exactly when the
\* cloud value is higher than the edge value, and for latency exactly when
\* the cloud value is lower than the edge value.
C17_PositiveMeansCloudBetter ==
  metrics.called =>
    /\ "accuracy" \in DOMAIN cloud_result =>
         (metrics.value["accuracy"].difference > 0
            <=> cloud_result["accuracy"] > ValueOf(edge_result, "accuracy"))
    /\ "throughput" \in DOMAIN cloud_result =>
         (metrics.value["throughput"].difference > 0
            <=> cloud_result["throughput"] > ValueOf(edge_result, "throughput"))
    /\ "avg_latency" \in DOMAIN cloud_result =>
         (metrics.value["latency"].difference > 0
            <=> cloud_result["avg_latency"] < ValueOf(edge_result, "avg_latency"))

\* C17 (amended): a positive difference means the cloud model is better for
\* accuracy (cloud value higher) and for latency (cloud value lower); for
\* throughput a positive difference means the edge value is the higher one.
\* An edge value that is absent counts as 0.
C17_PositiveMeansCloudBetterExceptThroughput ==
  metrics.called =>
    /\ "accuracy" \in DOMAIN cloud_result =>
         (metrics.value["accuracy"].difference > 0
            <=> cloud_result["accuracy"] > ValueOf(edge_result, "accuracy"))
    /\ "avg_latency" \in DOMAIN cloud_result =>
         (metrics.value["latency"].difference > 0
            <=> cloud_result["avg_latency"] < ValueOf(edge_result, "avg_latency"))
    /\ "throughput" \in DOMAIN cloud_result =>
         (metrics.value["throughput"].difference > 0
            <=> ValueOf(edge_result, "throughput") > cloud_result["throughput"])

\* A positive throughput difference although the cloud throughput is lower,
\* next to positive accuracy and latency differences.
C17_Witness ==
  /\ metrics.called
  /\ DOMAIN cloud_result = ResultKeys
  /\ DOMAIN edge_result = ResultKeys
  /\ cloud_result["throughput"] < edge_result["throughput"]
  /\ metrics.value["throughput"].difference > 0
  /\ metrics.value["accuracy"].difference > 0
  /\ metrics.value["latency"].difference > 0

\* The names under which _calculate_metrics can store an entry.
EntryNames == {"accuracy", "latency", "throughput"}

\* C18: the computed metrics hold the accuracy entry iff "accuracy" is in the
\* cloud result, the latency entry iff "avg_latency" is in the cloud result
\* and the throughput entry iff "throughput" is in the cloud result, and
\* nothing else; a key present only on the edge side produces no entry.
C18_CloudPresenceGates ==
  metrics.called =>
    /\ DOMAIN metrics.value \subseteq EntryNames
    /\ "accuracy" \in DOMAIN metrics.value
         <=> "accuracy" \in DOMAIN cloud_result
    /\ "latency" \in DOMAIN metrics.value
         <=> "avg_latency" \in DOMAIN cloud_result
    /\ "throughput" \in DOMAIN metrics.value
         <=> "throughput" \in DOMAIN cloud_result

\* Throughput only on the edge side, accuracy only on the cloud side.
C18_Witness ==
  /\ metrics.called
  /\ DOMAIN cloud_result = {"accuracy"}
  /\ DOMAIN edge_result = {"throughput"}
  /\ DOMAIN metrics.value = {"accuracy"}

\* C19 (as claimed): for a cloud result containing avg_latency the metrics
\* hold an entry named "avg_latency" whose difference is edge avg_latency
\* minus cloud avg_latency.
C19_DeltaNamedAvgLatency ==
  (metrics.called /\ "avg_latency" \in DOMAIN cloud_result) =>
    /\ "avg_latency" \in DOMAIN metrics.value
    /\ metrics.value["avg_latency"].difference =
         ValueOf(edge_result, "avg_latency") - cloud_result["avg_latency"]

\* C19 (amended): for a cloud result containing avg_latency the metrics hold
\* an entry named "latency", and none named "avg_latency", whose cloud and
\* edge values are the two avg_latency values (0 for an absent edge value)
\* and whose difference is edge avg_latency minus cloud avg_latency.
C19_DeltaNamedLatency ==
  (metrics.called /\ "avg_latency" \in DOMAIN cloud_result) =>
    /\ "avg_latency" \notin DOMAIN metrics.value
    /\ "latency" \in DOMAIN metrics.value
    /\ metrics.value["latency"].cloud = cloud_result["avg_latency"]
    /\ metrics.value["latency"].edge = ValueOf(edge_result, "avg_latency")
    /\ metrics.value["latency"].difference =
         ValueOf(edge_result, "avg_latency") - cloud_result["avg_latency"]

\* The edge latency exceeds the cloud latency and the entry says by how much.
C19_Witness ==
  /\ metrics.called
  /\ "avg_latency" \in DOMAIN cloud_result
  /\ "avg_latency" \in DOMAIN edge_result
  /\ edge_result["avg_latency"] > cloud_result["avg_latency"]
  /\ metrics.value["latency"].difference =
       edge_result["avg_latency"] - cloud_result["avg_latency"]

\* C30: a metric present in the cloud result and absent from the edge
\* result, an error marker or an empty edge result included, is still
\* emitted, with edge value 0 and with difference the cloud value for
\* accuracy and the negated cloud value for latency and throughput; a
\* cloud result that is an error marker or empty gives empty metrics.
C30_AbsentEdgeCountsAsZero ==
  metrics.called =>
    /\ \A k \in ResultKeys :
         (k \in DOMAIN cloud_result /\ k \notin DOMAIN edge_result) =>
           /\ MetricName(k) \in DOMAIN metrics.value
           /\ metrics.value[MetricName(k)].cloud = cloud_result[k]
           /\ metrics.value[MetricName(k)].edge = 0
           /\ metrics.value[MetricName(k)].difference =
                IF k = "accuracy" THEN cloud_result[k] ELSE 0 - cloud_result[k]
    /\ (cloud_result = EmptyDict \/ "error" \in DOMAIN cloud_result) =>
         DOMAIN metrics.value = {}

\* All three metrics on the cloud side, non-zero, against an edge side that
\* is an error marker.
C30_Witness ==
  /\ metrics.called
  /\ DOMAIN cloud_result = ResultKeys
  /\ \A k \in ResultKeys : cloud_result[k] > 0
  /\ "error" \in DOMAIN edge_result
  /\ DOMAIN metrics.value = EntryNames
  /\ metrics.value["accuracy"].difference = cloud_result["accuracy"]
  /\ metrics.value["latency"].difference < 0
  /\ metrics.value["throughput"].difference < 0

\* ===================================================================
\* UnifiedEvaluator.compare_models, evaluate and generate_report
\* ===================================================================
\* The config of a cloud model: a usable OpenAI configuration, with the
\* adapter type spelled out or left to its default, or one without a key.


CloudModelConfigs ==
  {[abbr |-> "gpt-3.5-turbo", config |-> c] : 
     c \in {[adapter_type |-> "openai", api_key |-> <<"sk-test">>],
            [api_key |-> <<"sk-test">>],
            [adapter_type |-> "openai"]}}

EdgeModelConfigs ==
  {[abbr |-> "edge-model", config |-> c] : 
     c \in {[adapter_type |-> "restful", endpoint |-> <<"http://", "x">>],
            [adapter_type |-> "restful"]}}

DatasetAbbrs == {"gsm8k", "mmlu"}


\* What a preds.json file can hold.
PredsChoices ==
  {[accuracy |-> 2, avg_latency |-> 1],
   [accuracy |-> 1, avg_latency |-> 2, throughput |-> 1]}


\* build_model_from_cfg(config): constructs the model, whose __init__ has
\* the manager create the adapter of config['config'].
build_model_from_cfg(cfg) ==
  create_adapter(DictGet(cfg.config, "adapter_type", "openai"), cfg.config)

\* evaluate's tasks list: for model in models: for dataset in datasets, the
\* partitioner giving one task per model and dataset.
Tasks ==
  LET nd == Len(dataset_configs)
  IN  [t \in 1..(Len(models) * nd) |->
         [model_abbr |-> models[((t - 1) \div nd) + 1],
          dataset_abbr |-> dataset_configs[((t - 1) % nd) + 1]]]

EvInit ==
  /\ GenIdle
  /\ RegIdle
  /\ MetIdle
  /\ FmIdle
  /\ model_configs \in
       {<<c, e>> : c \in CloudModelConfigs, e \in EdgeModelConfigs}
  /\ dataset_configs \in
       {l \in UNION {[1..n -> DatasetAbbrs] :
                      n \in 0..Cardinality(DatasetAbbrs)} :
          \A i, j \in DOMAIN l : i # j => l[i] # l[j]}
  /\ ev_pc = "build"
  /\ models = <<>>
  /\ task_i = 0
  /\ outcomes = <<>>
  /\ eval_results = EmptyDict
  /\ eval_error = ""
  /\ comparison = NotCalled
  /\ reports = <<>>
  /\ now = 0

\* The next model configuration of the build loop.
NextConfig == model_configs[Len(models) + 1]

\* model = build_model_from_cfg(config); models.append(model)
BuildModel ==
  /\ ev_pc = "build"
  /\ Len(models) < Len(model_configs)
  /\ build_model_from_cfg(NextConfig).ok
  /\ models' = Append(models, NextConfig.abbr)
  /\ UNCHANGED <<genVars, regVars, metVars, fmVars, model_configs,
                 dataset_configs,
                 ev_pc, task_i, outcomes, eval_results, eval_error,
                 comparison, reports, now>>

\* build_model_from_cfg raises: nothing in evaluate catches it.
BuildModelRaises ==
  /\ ev_pc = "build"
  /\ Len(models) < Len(model_configs)
  /\ ~build_model_from_cfg(NextConfig).ok
  /\ ev_pc' = "raised"
  /\ eval_error' = build_model_from_cfg(NextConfig).error
  /\ UNCHANGED <<genVars, regVars, metVars, fmVars, model_configs,
                 dataset_configs,
                 models, task_i, outcomes, eval_results, comparison,
                 reports, now>>

\* The datasets are built, the tasks are partitioned and results = {}.
Partition ==
  /\ ev_pc = "build"
  /\ Len(models) = Len(model_configs)
  /\ ev_pc' = "run"
  /\ task_i' = 1
  /\ eval_results' = EmptyDict
  /\ UNCHANGED <<genVars, regVars, metVars, fmVars, model_configs,
                 dataset_configs,
                 models, outcomes, eval_error, comparison, reports, now>>

\* One pass of the run loop's body over results.
Record(res, task, outcome) ==
  LET m == task.model_abbr
      d == task.dataset_abbr
      withModel == IF m \in DOMAIN res THEN res ELSE DictSet(res, m, EmptyDict)
  IN  IF outcome.kind = "preds"
        THEN DictSet(withModel, m, DictSet(withModel[m], d, outcome.preds))
      ELSE IF outcome.kind = "raises"
        THEN DictSet(withModel, m,
                     DictSet(withModel[m], d, ErrorMarker(outcome.error)))
      ELSE withModel

\* The run loop takes the next task.
RunTask ==
  /\ ev_pc = "run"
  /\ task_i <= Len(Tasks)
  /\ \E outcome \in ({[kind |-> "raises", error |-> "RuntimeError"],
                      [kind |-> "no_file"]}
                       \cup {[kind |-> "preds", preds |-> p] :
                               p \in PredsChoices}) :
       /\ eval_results' = Record(eval_results, Tasks[task_i], outcome)
       /\ outcomes' = Append(outcomes, outcome)
  /\ task_i' = task_i + 1
  /\ UNCHANGED <<genVars, regVars, metVars, fmVars, model_configs,
                 dataset_configs,
                 ev_pc, models, eval_error, comparison, reports, now>>

\* return results
EvaluateReturns ==
  /\ ev_pc = "run"
  /\ task_i > Len(Tasks)
  /\ ev_pc' = "returned"
  /\ UNCHANGED <<genVars, regVars, metVars, fmVars, model_configs,
                 dataset_configs,
                 models, task_i, outcomes, eval_results, eval_error,
                 comparison, reports, now>>

\* results.get(model_abbr, {}).get(dataset_abbr, {})
ResultFor(res, model_abbr, dataset_abbr) ==
  DictGet(DictGet(res, model_abbr, EmptyDict), dataset_abbr, EmptyDict)

\* The dict compare_models builds from evaluate's results at time clock.
ComparisonOf(res, clock) ==
  LET cloud_abbr == model_configs[1].abbr
      edge_abbr == model_configs[2].abbr
  IN  [timestamp |-> clock,
       models |-> [cloud |-> cloud_abbr, edge |-> edge_abbr],
       datasets |-> dataset_configs,
       results |-> res,
       comparison |->
         [d \in {dataset_configs[i] : i \in DOMAIN dataset_configs} |->
            LET c == ResultFor(res, cloud_abbr, d)
                e == ResultFor(res, edge_abbr, d)
            IN  [cloud |-> c, edge |-> e,
                 metrics |-> calculate_metrics(c, e)]]]

\* compare_models after evaluate returned: builds and returns the comparison.
CompareModels ==
  /\ ev_pc = "returned"
  /\ ev_pc' = "compared"
  /\ comparison' = [called |-> TRUE, ok |-> TRUE,
                    value |-> ComparisonOf(eval_results, now)]
  /\ now' = now + 1
  /\ UNCHANGED <<genVars, regVars, metVars, fmVars, model_configs,
                 dataset_configs,
                 models, task_i, outcomes, eval_results, eval_error, reports>>

\* compare_models after evaluate raised: the exception leaves it too.
CompareModelsRaises ==
  /\ ev_pc = "raised"
  /\ ev_pc' = "compare_raised"
  /\ comparison' = Raised(eval_error)
  /\ UNCHANGED <<genVars, regVars, metVars, fmVars, model_configs,
                 dataset_configs,
                 models, task_i, outcomes, eval_results, eval_error,
                 reports, now>>

\* A JSON object as json.dumps writes it: its members, key and value, in
\* the order `keys` in which the dict yields its keys; values[k] is what is
\* written for the value at key k.
JsonObject(keys, values) ==
  [i \in 1..Len(keys) |-> <<keys[i], values[keys[i]]>>]

\* The keys of JSON object obj, in the order written.
JsonKeys(obj) == [i \in DOMAIN obj |-> obj[i][1]]

\* The value of member key of JSON object obj.
JsonMember(obj, key) == obj[CHOOSE i \in DOMAIN obj : obj[i][1] = key][2]

\* The keys of dict d in the order `order` lists them.
OrderedKeys(d, order) == SelectSeq(order, LAMBDA k : k \in DOMAIN d)

\* The order in which a result's keys are written.
ResultKeyOrder == <<"accuracy", "avg_latency", "throughput", "error">>

\* The order in which _calculate_metrics inserts its entries.
MetricOrder == <<"accuracy", "latency", "throughput">>

\* {"cloud": ..., "edge": ..., "difference": ...} as written
JsonEntry(values) ==
  <<<<"cloud", values.cloud>>, <<"edge", values.edge>>,
    <<"difference", values.difference>>>>

JsonResult(r) == JsonObject(OrderedKeys(r, ResultKeyOrder), r)

JsonMetrics(m) ==
  JsonObject(OrderedKeys(m, MetricOrder), [n \in DOMAIN m |-> JsonEntry(m[n])])

\* (variant: the report is stamped with the time of the call)
ReportTimestampNow(cr, clock) == clock

\* "timestamp": comparison_result["timestamp"]
ReportTimestamp(cr, clock) == cr.timestamp

\* report["summary"][dataset][metric]
SummaryEntry(values) ==
  <<<<"cloud", values.cloud>>, <<"edge", values.edge>>,
    <<"difference", values.difference>>>>

\* The text generate_report returns for comparison result cr when called at
\* time clock: the report dict written by json.dumps.
generate_report(cr, clock) ==
  LET summary ==
        JsonObject(cr.datasets, [d \in DOMAIN cr.comparison |->
          JsonObject(OrderedKeys(cr.comparison[d].metrics, MetricOrder),
                     [n \in DOMAIN cr.comparison[d].metrics |->
                        SummaryEntry(cr.comparison[d].metrics[n])])])
      details ==
        JsonObject(cr.datasets, [d \in DOMAIN cr.comparison |->
          <<<<"cloud", JsonResult(cr.comparison[d].cloud)>>,
            <<"edge", JsonResult(cr.comparison[d].edge)>>,
            <<"metrics", JsonMetrics(cr.comparison[d].metrics)>>>>])
  IN  <<<<"title", "AI Model Evaluation Report">>,
        <<"timestamp", ReportTimestamp(cr, clock)>>,
        <<"models", <<<<"cloud", cr.models.cloud>>,
                      <<"edge", cr.models.edge>>>>>>,
        <<"datasets", cr.datasets>>,
        <<"summary", summary>>,
        <<"details", details>>>>

\* What generate_report leaves of the comparison result it was given.
InputAfterReport(cr) == cr

ReportCalls == 2   \* generate_report is called twice on the same result

\* generate_report(comparison_result), no output path given.
GenerateReport ==
  /\ ev_pc = "compared"
  /\ Len(reports) < ReportCalls
  /\ reports' = Append(reports, generate_report(comparison.value, now))
  /\ comparison' = [comparison EXCEPT !.value = InputAfterReport(@)]
  /\ now' = now + 1
  /\ UNCHANGED <<genVars, regVars, metVars, fmVars, model_configs,
                 dataset_configs,
                 ev_pc, models, task_i, outcomes, eval_results, eval_error>>

EvNext ==
  \/ BuildModel
  \/ BuildModelRaises
  \/ Partition
  \/ RunTask
  \/ EvaluateReturns
  \/ CompareModels
  \/ CompareModelsRaises
  \/ GenerateReport

SpecEvaluator == EvInit /\ [][EvNext]_vars

\* Evaluate's results hold an entry for the pair of task t.
HasEntry(t) ==
  /\ Tasks[t].model_abbr \in DOMAIN eval_results
  /\ Tasks[t].dataset_abbr \in DOMAIN eval_results[Tasks[t].model_abbr]

EntryOf(t) == eval_results[Tasks[t].model_abbr][Tasks[t].dataset_abbr]

\* C13: evaluate does not raise, a failure while constructing a model
\* included; once it has returned, every model/dataset pair was run, each
\* pair whose task raised is recorded as {"error": <message>} and no other
\* pair is.
C13_PairFailureIsolated ==
  /\ ev_pc # "raised"
  /\ ev_pc = "returned" =>
       /\ Len(models) = Len(model_configs)
       /\ Len(outcomes) = Len(model_configs) * Len(dataset_configs)
       /\ \A t \in DOMAIN outcomes :
            IF outcomes[t].kind = "raises"
              THEN HasEntry(t) /\ EntryOf(t) = ErrorMarker(outcomes[t].error)
              ELSE HasEntry(t) => "error" \notin DOMAIN EntryOf(t)

\* The cloud model is usable and the edge model's endpoint is missing.
MalformedEdge ==
  /\ build_model_from_cfg(model_configs[1]).ok
  /\ "endpoint" \notin DOMAIN model_configs[2].config

\* C14: compare_models over one dataset with a valid cloud configuration
\* and an edge configuration whose endpoint is missing does not raise; the
\* comparison it returns holds the cloud predictions on the cloud side of
\* the dataset and an inline error marker on the edge side.
C14_MalformedEdgeReported ==
  (MalformedEdge /\ Len(dataset_configs) = 1) =>
    /\ ev_pc \notin {"raised", "compare_raised"}
    /\ comparison.called =>
         /\ comparison.ok
         /\ comparison.value.comparison[dataset_configs[1]].cloud
              \in PredsChoices
         /\ "error" \in
              DOMAIN comparison.value.comparison[dataset_configs[1]].edge

\* C15: after evaluate returns, its results hold an entry for every
\* requested model/dataset pair, the pair's predictions or an inline error
\* marker.
C15_EveryPairHasEntry ==
  ev_pc = "returned" =>
    \A i \in DOMAIN model_configs, j \in DOMAIN dataset_configs :
      LET m == model_configs[i].abbr
          d == dataset_configs[j]
      IN  /\ m \in DOMAIN eval_results
          /\ d \in DOMAIN eval_results[m]
          /\ \/ eval_results[m][d] \in PredsChoices
             \/ "error" \in DOMAIN eval_results[m][d]

\* The comparison result generate_report is given.
Input == comparison.value

\* The summary block of a report text says of every dataset and every
\* metric of the comparison exactly its cloud, edge and difference.
SummaryHoldsValues(text) ==
  LET summary == JsonMember(text, "summary")
  IN  /\ JsonKeys(summary) = Input.datasets
      /\ \A d \in DOMAIN Input.comparison :
           LET block == JsonMember(summary, d)
               m == Input.comparison[d].metrics
           IN  /\ {block[i][1] : i \in DOMAIN block} = DOMAIN m
               /\ \A n \in DOMAIN m :
                    JsonMember(block, n) =
                      <<<<"cloud", m[n].cloud>>, <<"edge", m[n].edge>>,
                        <<"difference", m[n].difference>>>>

\* C20: the calls of generate_report on one comparison result return
\* identical text, the summary block of that text holds exactly the cloud,
\* edge and difference values of every dataset and metric of the
\* comparison, and a call leaves the comparison result as it was.
C20_ReportIsPure ==
  /\ [](\A i, j \in DOMAIN reports : reports[i] = reports[j])
  /\ [](\A i \in DOMAIN reports : SummaryHoldsValues(reports[i]))
  /\ [][GenerateReport => comparison' = comparison]_vars

\* Two reports of a comparison over two datasets, one of them with all
\* three metrics, the other with a failed edge side.
C20_Witness ==
  /\ Len(reports) = ReportCalls
  /\ Len(dataset_configs) = 2
  /\ \E d \in DOMAIN Input.comparison :
       DOMAIN Input.comparison[d].metrics = EntryNames
  /\ \E d \in DOMAIN Input.comparison :
       "error" \in DOMAIN Input.comparison[d].edge

\* ===================================================================
\* RESTfulAdapter: _set_nested_value, _prepare_request, _parse_response
\* ===================================================================
\* JSON values as Python holds them, each with its type. A str is the
\* sequence of its characters; the keys of a dict are strs.
JNull == <<"NoneType", 0>>
JBool(b) == <<"bool", b>>
JInt(n) == <<"int", n>>
JStr(chars) == <<"str", chars>>
JList(items) == <<"list", items>>
JDict(d) == <<"dict", d>>

\* isinstance(v, dict)
IsDict(v) == v[1] = "dict"

MaxPathLen == 3   \* longest dot-path, in characters


\* The dot-paths: "", "a", "a.b", "a.", ".", "ab", ...
Paths == SeqsUpTo({"a", "b", "."}, MaxPathLen)

\* The position of the first "." of str, 0 if it has none.
FirstDot(str) ==
  IF \E i \in DOMAIN str : str[i] = "."
    THEN CHOOSE i \in DOMAIN str :
           str[i] = "." /\ \A j \in 1..(i - 1) : str[j] # "."
    ELSE 0

RECURSIVE Split(_)
\* str.split('.'): the segments between the dots, empty ones included.
Split(str) ==
  IF FirstDot(str) = 0
    THEN <<str>>
    ELSE <<SubSeq(str, 1, FirstDot(str) - 1)>>
           \o Split(SubSeq(str, FirstDot(str) + 1, Len(str)))

\* keys[:-1]
Intermediate(keys) == SubSeq(keys, 1, Len(keys) - 1)

\* (variant: the value is stored under the first key of the path)
LeafKeyFirst(keys) == keys[1]

\* keys[-1]
LeafKey(keys) == keys[Len(keys)]

\* What the mutation of a container did: the container after it, or the
\* TypeError it raised.
Mutated(v) == [called |-> TRUE, ok |-> TRUE, value |-> v]
TypeError == Raised("TypeError")

RECURSIVE SetBelow(_, _, _, _)
\* The loop of _set_nested_value from `current` on, over the intermediate
\* keys left, and the final current[leaf] = value. `key not in current`,
\* current[key] = {} and current[key] raise TypeError, one or the other,
\* on every current that is not a dict, and so does current[leaf] = value.
SetBelow(current, keys, leaf, value) ==
  IF ~IsDict(current) THEN TypeError
  ELSE IF keys = <<>> THEN Mutated(JDict(DictSet(current[2], leaf, value)))
  ELSE LET key == Head(keys)
           child == IF key \in DOMAIN current[2]
                      THEN current[2][key]
                      ELSE JDict(EmptyDict)
           below == SetBelow(child, Tail(keys), leaf, value)
       IN  IF below.ok
             THEN Mutated(JDict(DictSet(current[2], key, below.value)))
             ELSE TypeError

\* RESTfulAdapter._set_nested_value: what it makes of data.
set_nested_value(data, key_path, value) ==
  LET keys == Split(key_path)
  IN  SetBelow(data, Intermediate(keys), LeafKey(keys), value)

RECURSIVE Walk(_, _)
\* The loop of _parse_response: from result down the keys, stopping at a
\* key that is empty or absent and at a result that is not a dict.
Walk(result, keys) ==
  IF keys = <<>> THEN result
  ELSE IF Head(keys) # <<>> /\ IsDict(result)
            /\ Head(keys) \in DOMAIN result[2]
    THEN Walk(result[2][Head(keys)], Tail(keys))
    ELSE result

\* The values written and found: of every JSON type, falsy ones included.
JsonValues ==
  {JNull, JBool(FALSE), JBool(TRUE), JInt(0), JInt(7), JStr(<<>>),
   JStr(<<"o", "k">>), JList(<<>>), JList(<<JInt(7)>>), JDict(EmptyDict),
   JDict([k \in {<<"b">>} |-> JInt(7)])}

\* The containers written into: empty, or with key "a" holding a value.
Containers ==
  {JDict(EmptyDict)} \cup {JDict([k \in {<<"a">>} |-> v]) : v \in JsonValues}

SetInit ==
  /\ GenIdle
  /\ RegIdle
  /\ MetIdle
  /\ EvIdle
  /\ fm_call \in [op : {"_set_nested_value"}, data : Containers,
                  key_path : Paths, value : JsonValues]
  /\ fm_result = NotCalled

SetNestedValue ==
  /\ fm_call.op = "_set_nested_value"
  /\ ~fm_result.called
  /\ fm_result' =
       set_nested_value(fm_call.data, fm_call.key_path, fm_call.value)
  /\ UNCHANGED <<genVars, regVars, metVars, evVars, fm_call>>

SetNext == SetNestedValue

SpecSetNested == SetInit /\ [][SetNext]_vars

\* The call being looked at is _set_nested_value and it has been made.
SetCalled == fm_call.op = "_set_nested_value" /\ fm_result.called

\* C21 (as claimed): for every dot-path and every value, writing the value
\* into an empty container with _set_nested_value and then walking the same
\* dot-path over the result yields that value.
C21_RoundTrip ==
  (SetCalled /\ fm_call.data = JDict(EmptyDict)) =>
    /\ fm_result.ok
    /\ Walk(fm_result.value, Split(fm_call.key_path)) = fm_call.value

\* No segment of the dot-path is empty.
NoEmptySegment(key_path) ==
  \A i \in DOMAIN Split(key_path) : Split(key_path)[i] # <<>>

\* C21 (amended): for every dot-path none of whose segments is empty and
\* every value, writing the value into an empty container with
\* _set_nested_value and then walking the same dot-path over the result
\* yields that value.
C21_RoundTripNonEmptySegments ==
  (SetCalled /\ fm_call.data = JDict(EmptyDict)
     /\ NoEmptySegment(fm_call.key_path)) =>
    /\ fm_result.ok
    /\ Walk(fm_result.value, Split(fm_call.key_path)) = fm_call.value

\* A falsy value written two levels down into the empty container and
\* found again.
C21_Witness ==
  /\ SetCalled
  /\ fm_call.data = JDict(EmptyDict)
  /\ fm_call.key_path = <<"a", ".", "b">>
  /\ fm_call.value = JInt(0)
  /\ fm_result.ok
  /\ fm_result.value =
       JDict([k \in {<<"a">>} |-> JDict([j \in {<<"b">>} |-> JInt(0)])])
  /\ Walk(fm_result.value, Split(fm_call.key_path)) = JInt(0)

RECURSIVE At(_, _)
\* container[k1][k2]...: the value at the keys, which are there.
At(container, keys) ==
  IF keys = <<>> THEN container ELSE At(container[2][Head(keys)], Tail(keys))

\* C22: _set_nested_value succeeds for any container and dot-path: it
\* raises nothing, and the value is then at the dot-path, an intermediate
\* key that held a non-mapping value holding a fresh mapping instead.
C22_NoFailureMode ==
  SetCalled =>
    /\ fm_result.ok
    /\ At(fm_result.value, Split(fm_call.key_path)) = fm_call.value

\* -------------------------------------------------------------------
\* RESTfulAdapter._prepare_request(prompt, **kwargs)
\* -------------------------------------------------------------------
\* The logical name 'prompt'.
PromptKey == <<"p", "r", "o", "m", "p", "t">>


\* The pairs (source_key, target_key) of a request mapping.
MappingPairs ==
  {<<source, target>> : source \in {PromptKey, <<"a">>}, target \in Paths}

\* self.request_mapping: its items in the order the dict yields them, no
\* source key twice.
RequestMappings ==
  {<<>>} \cup {<<p>> : p \in MappingPairs}
    \cup {m \in MappingPairs \X MappingPairs : m[1][1] # m[2][1]}


\* The value each parameter has when it is supplied.
SuppliedValue == [k \in {<<"a">>, <<"b">>} |->
                    IF k = <<"a">> THEN JInt(7) ELSE JInt(0)]


\* The source keys of a request mapping.
Sources(mapping) == {mapping[i][1] : i \in DOMAIN mapping}

RECURSIVE MapFields(_, _, _, _)
\* The first loop of _prepare_request over the items of the mapping still
\* to come: what it makes of request_data, or the TypeError that
\* _set_nested_value raises.
MapFields(request_data, mapping, prompt_text, kw) ==
  IF mapping = <<>> THEN Mutated(request_data)
  ELSE LET source_key == Head(mapping)[1]
           target_key == Head(mapping)[2]
           written ==
             IF source_key = PromptKey
               THEN set_nested_value(request_data, target_key, prompt_text)
             ELSE IF source_key \in DOMAIN kw
               THEN set_nested_value(request_data, target_key, kw[source_key])
             ELSE Mutated(request_data)
       IN  IF written.ok
             THEN MapFields(written.value, Tail(mapping), prompt_text, kw)
             ELSE TypeError

\* (variant: a parameter passed through does not replace what is there)
PassThroughKeeps(request_data, mapping, kw) ==
  JDict(DictUpdate([k \in DOMAIN kw \ Sources(mapping) |-> kw[k]],
                   request_data[2]))

\* The second loop of _prepare_request: request_data[key] = value for every
\* parameter that is no key of the mapping.
PassThrough(request_data, mapping, kw) ==
  JDict(DictUpdate(request_data[2],
                   [k \in DOMAIN kw \ Sources(mapping) |-> kw[k]]))

\* RESTfulAdapter._prepare_request: the request it returns, or the
\* TypeError that leaves it.
prepare_request(mapping, prompt_text, kw) ==
  LET mapped == MapFields(JDict(EmptyDict), mapping, prompt_text, kw)
  IN  IF mapped.ok
        THEN Mutated(PassThrough(mapped.value, mapping, kw))
        ELSE TypeError

ReqInit ==
  /\ GenIdle
  /\ RegIdle
  /\ MetIdle
  /\ EvIdle
  /\ fm_call \in [op : {"_prepare_request"},
                  request_mapping : RequestMappings,
                  prompt : {JStr(<<"h", "i">>)},
                  \* **kwargs: any of the parameters a and b supplied or not.
                  kwargs : {[k \in names |-> SuppliedValue[k]] :
                              names \in SUBSET DOMAIN SuppliedValue}]
  /\ fm_result = NotCalled

PrepareRequest ==
  /\ fm_call.op = "_prepare_request"
  /\ ~fm_result.called
  /\ fm_result' =
       prepare_request(fm_call.request_mapping, fm_call.prompt, fm_call.kwargs)
  /\ UNCHANGED <<genVars, regVars, metVars, evVars, fm_call>>

ReqNext == PrepareRequest

SpecRequest == ReqInit /\ [][ReqNext]_vars

\* The call being looked at is _prepare_request and it has been made.
ReqCalled == fm_call.op = "_prepare_request" /\ fm_result.called

RECURSIVE HasPath(_, _)
\* The container has the keys, one below the other.
HasPath(container, keys) ==
  \/ keys = <<>>
  \/ /\ IsDict(container)
     /\ Head(keys) \in DOMAIN container[2]
     /\ HasPath(container[2][Head(keys)], Tail(keys))

\* The request holds the value at the dot-path.
Holds(request, key_path, value) ==
  /\ HasPath(request, Split(key_path))
  /\ At(request, Split(key_path)) = value

\* The parameters supplied that are no key of the request mapping.
Unmapped == DOMAIN fm_call.kwargs \ Sources(fm_call.request_mapping)

\* C23: _prepare_request returns a request in which, for every pair of the
\* request mapping, the prompt text is at the dot-path when the logical
\* name is 'prompt' and the supplied value is at the dot-path when the
\* logical name is a supplied parameter; a mapped parameter is not
\* additionally at the top level under its own name; and a mapping none of
\* whose names is 'prompt' or supplied writes nothing.
C23_MappingApplied ==
  ReqCalled =>
    /\ fm_result.ok
    /\ \A i \in DOMAIN fm_call.request_mapping :
         LET source_key == fm_call.request_mapping[i][1]
             target_key == fm_call.request_mapping[i][2]
         IN  /\ source_key = PromptKey =>
                  Holds(fm_result.value, target_key, fm_call.prompt)
             /\ source_key \in DOMAIN fm_call.kwargs =>
                  /\ Holds(fm_result.value, target_key,
                           fm_call.kwargs[source_key])
                  /\ Split(target_key) # <<source_key>> =>
                       ~Holds(fm_result.value, source_key,
                              fm_call.kwargs[source_key])
    /\ (\A i \in DOMAIN fm_call.request_mapping :
          /\ fm_call.request_mapping[i][1] # PromptKey
          /\ fm_call.request_mapping[i][1] \notin DOMAIN fm_call.kwargs) =>
         fm_result.value = JDict([k \in Unmapped |-> fm_call.kwargs[k]])

\* C24: in the request _prepare_request builds, every supplied parameter
\* whose name is no key of the request mapping is at the top level under
\* its own name with its supplied value.
C24_PassThrough ==
  (ReqCalled /\ fm_result.ok) =>
    \A k \in Unmapped :
      /\ k \in DOMAIN fm_result.value[2]
      /\ fm_result.value[2][k] = fm_call.kwargs[k]

\* Parameter b passed through next to a mapped prompt and a mapped
\* parameter a.
C24_Witness ==
  /\ ReqCalled
  /\ fm_result.ok
  /\ fm_call.request_mapping =
       <<<<PromptKey, <<"a", ".", "b">>>>, <<<<"a">>, <<"b", ".", "a">>>>>>
  /\ DOMAIN fm_call.kwargs = {<<"a">>, <<"b">>}
  /\ Unmapped = {<<"b">>}
  /\ fm_result.value[2][<<"b">>] = JInt(0)

\* C29: with a request mapping that contains 'prompt', the request that
\* _prepare_request returns holds the prompt text at the mapped dot-path,
\* whatever extra parameters are supplied.
C29_PromptAlwaysPresent ==
  (ReqCalled /\ PromptKey \in Sources(fm_call.request_mapping)) =>
    /\ fm_result.ok
    /\ \A i \in DOMAIN fm_call.request_mapping :
         fm_call.request_mapping[i][1] = PromptKey =>
           Holds(fm_result.value, fm_call.request_mapping[i][2],
                 fm_call.prompt)

\* -------------------------------------------------------------------
\* RESTfulAdapter._parse_response(response)
\* -------------------------------------------------------------------
\* bool(v): None, False, 0 and the empty str, list and dict are falsy.
PyTruthy(v) ==
  IF v[1] = "NoneType" THEN FALSE
  ELSE IF v[1] = "bool" THEN v[2]
  ELSE IF v[1] = "int" THEN v[2] # 0
  ELSE IF v[1] = "dict" THEN DOMAIN v[2] # {}
  ELSE v[2] # <<>>

RECURSIVE Repr(_)
RECURSIVE ReprItems(_)
RECURSIVE ReprEntries(_, _)

\* repr(v), a str: its characters, a number being one of them.
Repr(v) ==
  IF v[1] = "NoneType" THEN <<"N", "o", "n", "e">>
  ELSE IF v[1] = "bool"
    THEN IF v[2] THEN <<"T", "r", "u", "e">> ELSE <<"F", "a", "l", "s", "e">>
  ELSE IF v[1] = "int" THEN <<ToString(v[2])>>
  ELSE IF v[1] = "str" THEN <<"'">> \o v[2] \o <<"'">>
  ELSE IF v[1] = "list" THEN <<"[">> \o ReprItems(v[2]) \o <<"]">>
  ELSE <<"{">> \o ReprEntries(v[2], DOMAIN v[2]) \o <<"}">>

\* The items of a list, ", " between them.
ReprItems(items) ==
  IF items = <<>> THEN <<>>
  ELSE IF Len(items) = 1 THEN Repr(Head(items))
  ELSE Repr(Head(items)) \o <<",", " ">> \o ReprItems(Tail(items))

\* The entries 'key': value of dict d at the keys left, ", " between them.
ReprEntries(d, keys) ==
  IF keys = {} THEN <<>>
  ELSE LET k == CHOOSE key \in keys : TRUE
           entry == <<"'">> \o k \o <<"'", ":", " ">> \o Repr(d[k])
       IN  IF keys = {k} THEN entry
           ELSE entry \o <<",", " ">> \o ReprEntries(d, keys \ {k})

\* str(v): a str is its own text, every other value its repr.
Str(v) == IF v[1] = "str" THEN v[2] ELSE Repr(v)



\* RESTfulAdapter._parse_response: the str it returns.
parse_response(response, response_mapping) ==
  LET result == Walk(response, Split(DictGet(response_mapping, "result", <<>>)))
  IN  IF PyTruthy(result) THEN Str(result) ELSE <<>>

ParseInit ==
  /\ GenIdle
  /\ RegIdle
  /\ MetIdle
  /\ EvIdle
  /\ fm_call \in [op : {"_parse_response"},
                  \* self.response_mapping: without 'result', or with
                  \* 'result' a dot-path.
                  response_mapping :
                    ({EmptyDict} \cup {[result |-> path] : path \in Paths}),
                  \* The responses parsed: empty, with "a" holding a value,
                  \* with "a" holding a mapping in which "b" holds a value.
                  response :
                    (Containers
                       \cup {JDict([k \in {<<"a">>} |->
                                     JDict([j \in {<<"b">>} |-> v])]) :
                               v \in JsonValues})]
  /\ fm_result = NotCalled

ParseResponse ==
  /\ fm_call.op = "_parse_response"
  /\ ~fm_result.called
  /\ fm_result' =
       [called |-> TRUE, ok |-> TRUE,
        value |-> parse_response(fm_call.response, fm_call.response_mapping)]
  /\ UNCHANGED <<genVars, regVars, metVars, evVars, fm_call>>

ParseNext == ParseResponse

SpecParse == ParseInit /\ [][ParseNext]_vars

\* The call being looked at is _parse_response and it has been made.
ParseCalled == fm_call.op = "_parse_response" /\ fm_result.called

\* The keys of the response dot-path.
ResponseKeys == Split(DictGet(fm_call.response_mapping, "result", <<>>))

\* The walk goes all the way: every key is followed.
Located ==
  /\ \A i \in DOMAIN ResponseKeys : ResponseKeys[i] # <<>>
  /\ HasPath(fm_call.response, ResponseKeys)

\* C25: when the walk of the response dot-path fails partway, at an absent
\* key or at a value that is no mapping, _parse_response raises nothing
\* and returns the text of the deepest value reached.
C25_BestEffortDegrade ==
  (ParseCalled /\ ~Located) =>
    /\ fm_result.ok
    /\ fm_result.value = Str(Walk(fm_call.response, ResponseKeys))

\* C26: for every value that _parse_response locates at the end of the
\* walk, of any JSON type, 0, false, the empty list and the empty mapping
\* included, the text returned is the textual representation of the value.
C26_TextOfLocatedValue ==
  (ParseCalled /\ Located) =>
    fm_result.value = Str(At(fm_call.response, ResponseKeys))

====
